---- MODULE Spec2Model ----
(***************************************************************************)
(* A model of ldap2json.py: the LDAPDirectory class (endpoint rotation,    *)
(* search with reconnect and backoff, build_filter).                       *)
(*                                                                         *)
(* Strings are sequences of code points, so that Python's ordering of      *)
(* strings and the '%' formatting are computed and not assumed.            *)
(***************************************************************************)
EXTENDS Integers, Sequences, FiniteSets, TLC

\* ---------------------------------------------------------------- bounds
MaxUris == 3          \* longest endpoint rotation explored
MaxMaxwait == 7       \* largest configured maxwait explored
MaxFailures == 6      \* SERVER_DOWN failures the servers may produce before they settle
MaxCriteria == 3      \* most key/value pairs in one criteria mapping

Threads == {1, 2}     \* threads that may call search()

\* ---------------------------------------------------------------- strings
\* "cn", "c", "mail", "objectclass"
s_cn == <<99, 110>>
s_c == <<99>>
s_mail == <<109, 97, 105, 108>>
s_objectclass == <<111, 98, 106, 101, 99, 116, 99, 108, 97, 115, 115>>
\* "alice", "a@example.com", "*"
s_alice == <<97, 108, 105, 99, 101>>
s_aexample == <<97, 64, 101, 120, 97, 109, 112, 108, 101, 46, 99, 111, 109>>
s_star == <<42>>

AttrNames == {s_cn, s_c, s_mail, s_objectclass}
AttrValues == {s_alice, s_aexample, s_star}

\* Python's str '<': lexicographic by code point, a proper prefix is smaller.
RECURSIVE StrLess(_, _)
StrLess(a, b) ==
    IF b = <<>> THEN FALSE
    ELSE IF a = <<>> THEN TRUE
    ELSE IF Head(a) # Head(b) THEN Head(a) < Head(b)
    ELSE StrLess(Tail(a), Tail(b))

Max(a, b) == IF a >= b THEN a ELSE b
Min(a, b) == IF a <= b THEN a ELSE b

\* ---------------------------------------------------------------- build_filter
\* '(%s=%s)' % (k, v)
Term(kv) == <<40>> \o kv[1] \o <<61>> \o kv[2] \o <<41>>

\* the sort key of line 88: key=lambda x: x[0]
SortKey(kv) == kv[1]

\* insert kv into the sorted list s, after every element whose key is not
\* greater (sorted() is stable)
RECURSIVE InsertSorted(_, _)
InsertSorted(s, kv) ==
    IF s = <<>> THEN <<kv>>
    ELSE IF StrLess(SortKey(kv), SortKey(Head(s))) THEN <<kv>> \o s
    ELSE <<Head(s)>> \o InsertSorted(Tail(s), kv)

RECURSIVE SortedItems(_)
SortedItems(items) ==
    IF items = <<>> THEN <<>>
    ELSE InsertSorted(SortedItems(SubSeq(items, 1, Len(items) - 1)), items[Len(items)])

\* the order in which line 88 walks the items
UnsortedItems(items) == items
LoopItems(items) == SortedItems(items)

RECURSIVE Join(_)
Join(terms) == IF terms = <<>> THEN <<>> ELSE Head(terms) \o Join(Tail(terms))

\* lines 91-94: the AND wrapper is used for more than one term
WrapsAlways(terms) == Len(terms) >= 1
Wraps(terms) == Len(terms) > 1

\* the outcome of a call of build_filter: a string or an exception
Built(str) == [ok |-> TRUE, val |-> str, err |-> "None"]
Raised(e) == [ok |-> FALSE, val |-> <<>>, err |-> e]
NotBuilt == Raised("not called")

\* build_filter(**kwargs): the filter string, or the exception filter[0]
\* raises on an empty list
build_filter(kwargs) ==
    LET terms == [i \in 1..Len(kwargs) |-> Term(LoopItems(kwargs)[i])]
    IN IF Wraps(terms) THEN Built(<<40, 38>> \o Join(terms) \o <<41>>)
       ELSE IF terms = <<>> THEN Raised("IndexError")
       ELSE Built(terms[1])

\* criteria mappings: sequences of pairs (insertion order) with distinct keys
RECURSIVE SeqsUpTo(_, _)
SeqsUpTo(S, n) ==
    IF n = 0 THEN {<<>>}
    ELSE LET shorter == SeqsUpTo(S, n - 1)
         IN shorter \cup {Append(s, x) : s \in {q \in shorter : Len(q) = n - 1}, x \in S}

DistinctKeys(s) == \A i, j \in 1..Len(s) : i # j => s[i][1] # s[j][1]
Criteria == {s \in SeqsUpTo(AttrNames \X AttrValues, MaxCriteria) : DistinctKeys(s)}

\* ---------------------------------------------------------------- state
VARIABLES
    uris,       \* the endpoint rotation given to __init__ (self.uris cycles over it)
    maxwait,    \* self.maxwait
    basedn,     \* self.basedn
    scope,      \* self.scope
    cursor,     \* position of the cycle iterator: index (0-based) of the next item
    dir,        \* self.dir: the current handle, [id, uri]
    connects,   \* number of connect() calls since construction
    downs,      \* number of SERVER_DOWN failures raised by search_s so far
    callers,    \* the threads that serve requests (one under the default server)
    settled,    \* the servers have stopped changing
    up,         \* once settled: the endpoints that answer
    pc,         \* per caller: position in search()
    arg,        \* per caller: the kwargs search() was called with
    filter,     \* per caller: local filter
    tries,      \* per caller: local tries
    interval,   \* per caller: local interval
    sleeps,     \* per caller: the intervals slept in this call, in order
    nconn,      \* per caller: connect() calls made by this call
    nfail,      \* per caller: SERVER_DOWN failures seen by this call
    lastout,    \* per caller: what the latest search_s of this call did
    served,     \* per caller: the records the latest successful search_s gave
    res,        \* per caller: the value search() returned
    exc,        \* per caller: the exception search() raised
    uri,        \* per caller: local uri of connect()
    events,     \* per caller: what this call did so far (search_s, sleep, connect), in order
    entry,      \* per caller: self.dir and the cursor when search() was entered
    req,        \* per caller: the request ldapsearch() is serving
    resp,       \* per caller: the response of ldapsearch()
    criteria,   \* build_filter called directly: its kwargs
    built       \* build_filter called directly: its outcome

conn_vars == <<uris, maxwait, basedn, scope, cursor, dir, connects>>
env_vars == <<callers, downs, settled, up>>
call_vars == <<pc, arg, filter, tries, interval, sleeps, nconn, nfail, lastout, served, res, exc,
               uri, events, entry>>
gw_vars == <<req, resp>>
bf_vars == <<criteria, built>>
vars == <<conn_vars, env_vars, call_vars, bf_vars, gw_vars>>

None == "None"
\* a value that may be unbound: <<>> or <<x>>
Unbound == <<>>
Bound(x) == <<x>>
Endpoints(n) == [i \in 1..n |-> i]
RecordSets == {{}, {"r1"}, {"r1", "r2"}}
Errors == {"SERVER_DOWN", "PROTOCOL_ERROR"}
SearchInputs == {<<>>, <<<<s_cn, s_alice>>>>, <<<<s_mail, s_aexample>>, <<s_cn, s_alice>>>>}

\* ---------------------------------------------------------------- connect
\* next(self.uris) on itertools.cycle(uris): the item under the cursor
NextUriStuck(us, c) == us[1]
NextUri(us, c) == us[c + 1]

AdvanceCursorStuck(us, c) == c
AdvanceCursor(us, c) == (c + 1) % Len(us)

\* connect(), lines 47-51
connect ==
    /\ cursor' = AdvanceCursor(uris, cursor)
    /\ connects' = connects + 1
    /\ dir' = [id |-> connects + 1, uri |-> NextUri(uris, cursor)]
    /\ UNCHANGED <<uris, maxwait, basedn, scope>>

\* ---------------------------------------------------------------- search
\* line 78
IntervalNoFloor(mw, tr) == Min(mw, (tr - 1) * 2)
IntervalOffByOne(mw, tr) == Max(1, Min(mw, tr * 2))
IntervalModulo(mw, tr) == Max(1, IF mw >= 1 THEN ((tr - 1) * 2) % (mw + 1) ELSE mw)
Interval(mw, tr) == Max(1, Min(mw, (tr - 1) * 2))

\* line 77: except ldap.SERVER_DOWN
CaughtAll(e) == TRUE
CaughtNone(e) == FALSE
Caught(e) == e = "SERVER_DOWN"

InCall(t) == pc[t] \in {"attempt", "sleep", "connect", "bind"}

\* lines 62-63: empty kwargs become the match-all criterion
NotSubstituted(kw) == kw
Substituted(kw) == IF kw = <<>> THEN <<<<s_objectclass, s_star>>>> ELSE kw

\* line 66: tries = 0
KeptTries(old) == old
FirstTries(old) == 0

\* lines 72-75: the arguments of search_s
RequestMatchAllOnRetry(t) ==
    [base |-> basedn, scope |-> scope,
     filterstr |-> IF tries[t] > 0 THEN Term(<<s_objectclass, s_star>>) ELSE filter[t]]
Request(t) == [base |-> basedn, scope |-> scope, filterstr |-> filter[t]]

\* what a call did: search_s on a handle, time.sleep, connect()
SearchEv(t) ==
    [op |-> "search_s", id |-> dir.id, uri |-> dir.uri, secs |-> 0,
     base |-> Request(t).base, scope |-> Request(t).scope, filterstr |-> Request(t).filterstr]
SleepEv(n) ==
    [op |-> "sleep", id |-> 0, uri |-> 0, secs |-> n,
     base |-> <<>>, scope |-> 0, filterstr |-> <<>>]
ConnectEv(h) ==
    [op |-> "connect", id |-> h.id, uri |-> h.uri, secs |-> 0,
     base |-> <<>>, scope |-> 0, filterstr |-> <<>>]

\* lines 62-66: what entering search(**kw) does to the caller's frame
SearchEntry(t, kw) ==
    /\ t \in callers
    /\ ~InCall(t)
    /\ LET f == build_filter(Substituted(kw))
       IN /\ arg' = [arg EXCEPT ![t] = kw]
          /\ IF f.ok
             THEN /\ filter' = [filter EXCEPT ![t] = f.val]
                  /\ pc' = [pc EXCEPT ![t] = "attempt"]
                  /\ exc' = [exc EXCEPT ![t] = None]
             ELSE /\ filter' = [filter EXCEPT ![t] = <<>>]
                  /\ pc' = [pc EXCEPT ![t] = "done"]
                  /\ exc' = [exc EXCEPT ![t] = f.err]
    /\ tries' = [tries EXCEPT ![t] = FirstTries(@)]
    /\ interval' = [interval EXCEPT ![t] = 0]
    /\ sleeps' = [sleeps EXCEPT ![t] = <<>>]
    /\ nconn' = [nconn EXCEPT ![t] = 0]
    /\ nfail' = [nfail EXCEPT ![t] = 0]
    /\ lastout' = [lastout EXCEPT ![t] = None]
    /\ served' = [served EXCEPT ![t] = Unbound]
    /\ res' = [res EXCEPT ![t] = Unbound]
    /\ uri' = [uri EXCEPT ![t] = Unbound]
    /\ events' = [events EXCEPT ![t] = <<>>]
    /\ entry' = [entry EXCEPT ![t] = [dir |-> dir, cursor |-> cursor]]

\* search(**kwargs) is called directly
Call(t, kw) ==
    /\ ~req[t].active
    /\ SearchEntry(t, kw)
    /\ UNCHANGED <<conn_vars, env_vars, bf_vars, gw_vars>>

\* the first search() call of a thread
CallOnce(t, kw) ==
    /\ pc[t] = "idle"
    /\ Call(t, kw)

\* what search_s on the current handle may do
MayAnswer == IF settled THEN dir.uri \in up ELSE TRUE
MayFail(e) ==
    IF settled THEN e = "SERVER_DOWN" /\ dir.uri \notin up
    ELSE e = "SERVER_DOWN" => downs < MaxFailures

\* lines 69-76: one attempt that succeeds, search() returns res
AttemptOk(t, r) ==
    /\ pc[t] = "attempt"
    /\ MayAnswer
    /\ tries' = [tries EXCEPT ![t] = @ + 1]
    /\ lastout' = [lastout EXCEPT ![t] = "ok"]
    /\ served' = [served EXCEPT ![t] = Bound(r)]
    /\ res' = [res EXCEPT ![t] = Bound(r)]
    /\ pc' = [pc EXCEPT ![t] = "done"]
    /\ events' = [events EXCEPT ![t] = Append(@, SearchEv(t))]
    /\ UNCHANGED <<conn_vars, env_vars, bf_vars, gw_vars, arg, filter, interval, sleeps, nconn,
                   nfail, exc, uri, entry>>

\* lines 69-80: one attempt in which search_s raises e
AttemptFail(t, e) ==
    /\ pc[t] = "attempt"
    /\ MayFail(e)
    /\ tries' = [tries EXCEPT ![t] = @ + 1]
    /\ lastout' = [lastout EXCEPT ![t] = e]
    /\ downs' = IF e = "SERVER_DOWN" THEN downs + 1 ELSE downs
    /\ nfail' = [nfail EXCEPT ![t] = IF e = "SERVER_DOWN" THEN @ + 1 ELSE @]
    /\ IF Caught(e)
       THEN /\ interval' = [interval EXCEPT ![t] = Interval(maxwait, tries[t] + 1)]
            /\ pc' = [pc EXCEPT ![t] = "sleep"]
            /\ exc' = exc
       ELSE /\ interval' = interval
            /\ pc' = [pc EXCEPT ![t] = "done"]
            /\ exc' = [exc EXCEPT ![t] = e]
    /\ events' = [events EXCEPT ![t] = Append(@, SearchEv(t))]
    /\ UNCHANGED <<conn_vars, callers, settled, up, bf_vars, gw_vars, arg, filter, sleeps, nconn,
                   served, res, uri, entry>>

\* line 81: time.sleep(interval)
Sleep(t) ==
    /\ pc[t] = "sleep"
    /\ sleeps' = [sleeps EXCEPT ![t] = Append(@, interval[t])]
    /\ pc' = [pc EXCEPT ![t] = "connect"]
    /\ events' = [events EXCEPT ![t] = Append(@, SleepEv(interval[t]))]
    /\ UNCHANGED <<conn_vars, env_vars, bf_vars, gw_vars, arg, filter, tries, interval, nconn,
                   nfail, lastout, served, res, exc, uri, entry>>

\* line 82: self.connect(), then back to the top of the loop
Reconnect(t) ==
    /\ pc[t] = "connect"
    /\ connect
    /\ nconn' = [nconn EXCEPT ![t] = @ + 1]
    /\ pc' = [pc EXCEPT ![t] = "attempt"]
    /\ events' = [events EXCEPT ![t] = Append(@, ConnectEv(dir'))]
    /\ UNCHANGED <<env_vars, bf_vars, gw_vars, arg, filter, tries, interval, sleeps, nfail,
                   lastout, served, res, exc, uri, entry>>

\* line 82 when other threads run between the statements of connect():
\* line 49, uri = next(self.uris); the local keeps the number of this
\* connect() call with the uri
ConnectNext(t) ==
    /\ pc[t] = "connect"
    /\ cursor' = AdvanceCursor(uris, cursor)
    /\ connects' = connects + 1
    /\ uri' = [uri EXCEPT ![t] = Bound([id |-> connects + 1, uri |-> NextUri(uris, cursor)])]
    /\ pc' = [pc EXCEPT ![t] = "bind"]
    /\ UNCHANGED <<uris, maxwait, basedn, scope, dir, env_vars, bf_vars, gw_vars, arg, filter,
                   tries, interval, sleeps, nconn, nfail, lastout, served, res, exc, events, entry>>

\* line 51, self.dir = ldap.initialize(uri), then back to the top of the loop
ConnectBind(t) ==
    /\ pc[t] = "bind"
    /\ dir' = uri[t][1]
    /\ uri' = [uri EXCEPT ![t] = Unbound]
    /\ nconn' = [nconn EXCEPT ![t] = @ + 1]
    /\ pc' = [pc EXCEPT ![t] = "attempt"]
    /\ events' = [events EXCEPT ![t] = Append(@, ConnectEv(uri[t][1]))]
    /\ UNCHANGED <<uris, maxwait, basedn, scope, cursor, connects, env_vars, bf_vars, gw_vars,
                   arg, filter, tries, interval, sleeps, nfail, lastout, served, res, exc, entry>>

\* the servers stop changing: from now on exactly the endpoints of s answer
Settle(s) ==
    /\ ~settled
    /\ s # {}
    /\ s \subseteq {uris[i] : i \in 1..Len(uris)}
    /\ settled' = TRUE
    /\ up' = s
    /\ UNCHANGED <<conn_vars, callers, downs, call_vars, bf_vars, gw_vars>>

\* ---------------------------------------------------------------- ldapsearch
\* "callback", "_", "cb", "1"
s_callback == <<99, 97, 108, 108, 98, 97, 99, 107>>
s_underscore == <<95>>
s_cb == <<99, 98>>
s_one == <<49>>

\* request.GET of the requests explored
Queries ==
    {<<>>,
     <<<<s_cn, s_alice>>>>,
     <<<<s_callback, s_cb>>, <<s_cn, s_alice>>>>,
     <<<<s_underscore, s_one>>, <<s_callback, s_cb>>>>}

\* lines 125-131: request.GET without the keys callback and _
RECURSIVE Strip(_)
Strip(q) ==
    IF q = <<>> THEN <<>>
    ELSE IF Head(q)[1] \in {s_callback, s_underscore} THEN Strip(Tail(q))
    ELSE <<Head(q)>> \o Strip(Tail(q))

\* lines 120-126: the callback parameter, None ('' here) when there is none
RECURSIVE CallbackOf(_)
CallbackOf(q) ==
    IF q = <<>> THEN <<>>
    ELSE IF Head(q)[1] = s_callback THEN Head(q)[2]
    ELSE CallbackOf(Tail(q))

NoRequest == [active |-> FALSE, callback |-> <<>>]
NoResponse == [status |-> 0, callback |-> <<>>, json |-> {}]

\* line 145: not res
FalsyNever(r) == FALSE
Falsy(r) == r = {}

\* lines 116-142: ldapsearch() up to the entry of directory.search
ldapsearch(t, q) ==
    /\ ~req[t].active
    /\ SearchEntry(t, Strip(q))
    /\ req' = [req EXCEPT ![t] = [active |-> TRUE, callback |-> CallbackOf(q)]]
    /\ resp' = [resp EXCEPT ![t] = NoResponse]
    /\ UNCHANGED <<conn_vars, env_vars, bf_vars>>

\* lines 145-156 once directory.search has returned, or the exception of
\* directory.search leaving ldapsearch() (an error response of the server)
Respond(t) ==
    /\ req[t].active
    /\ pc[t] = "done"
    /\ resp' = [resp EXCEPT ![t] =
            IF res[t] = Unbound THEN [status |-> 500, callback |-> <<>>, json |-> {}]
            ELSE IF Falsy(res[t][1]) THEN [status |-> 404, callback |-> <<>>, json |-> {}]
            ELSE [status |-> 200, callback |-> req[t].callback, json |-> res[t][1]]]
    /\ req' = [req EXCEPT ![t] = [@ EXCEPT !.active = FALSE]]
    /\ UNCHANGED <<conn_vars, env_vars, call_vars, bf_vars>>

\* ---------------------------------------------------------------- construction
\* ldap.SCOPE_BASE, ldap.SCOPE_ONELEVEL, ldap.SCOPE_SUBTREE
SCOPE_BASE == 0
Scopes == {0, 1, 2}
\* '' and "dc=x"
DefaultBasedn == <<>>
Bases == {<<>>, <<100, 99, 61, 120>>}

\* __init__, lines 31-45: the state after LDAPDirectory(uris, basedn=b, scope=sc, maxwait=mw)
ConstructedWith(n, mw, b, sc) ==
    /\ uris = Endpoints(n)
    /\ maxwait = mw
    /\ basedn = b
    /\ scope = sc
    /\ cursor = AdvanceCursor(Endpoints(n), 0)
    /\ connects = 1
    /\ dir = [id |-> 1, uri |-> NextUri(Endpoints(n), 0)]

\* the state after LDAPDirectory(uris, maxwait=mw)
Constructed(n, mw) == ConstructedWith(n, mw, DefaultBasedn, SCOPE_BASE)

NoCalls ==
    /\ pc = [t \in Threads |-> "idle"]
    /\ arg = [t \in Threads |-> <<>>]
    /\ filter = [t \in Threads |-> <<>>]
    /\ tries = [t \in Threads |-> 0]
    /\ interval = [t \in Threads |-> 0]
    /\ sleeps = [t \in Threads |-> <<>>]
    /\ nconn = [t \in Threads |-> 0]
    /\ nfail = [t \in Threads |-> 0]
    /\ lastout = [t \in Threads |-> None]
    /\ served = [t \in Threads |-> Unbound]
    /\ res = [t \in Threads |-> Unbound]
    /\ exc = [t \in Threads |-> None]
    /\ uri = [t \in Threads |-> Unbound]
    /\ events = [t \in Threads |-> <<>>]
    /\ entry = [t \in Threads |-> [dir |-> dir, cursor |-> cursor]]
    /\ req = [t \in Threads |-> NoRequest]
    /\ resp = [t \in Threads |-> NoResponse]

Init ==
    /\ \E n \in 1..MaxUris, mw \in (-1)..MaxMaxwait : Constructed(n, mw)
    /\ callers = {1}
    /\ downs = 0
    /\ settled = FALSE
    /\ up = {}
    /\ NoCalls
    /\ criteria = <<>>
    /\ built = NotBuilt

Next ==
    \/ \E t \in Threads, kw \in SearchInputs : Call(t, kw)
    \/ \E t \in Threads, r \in RecordSets : AttemptOk(t, r)
    \/ \E t \in Threads, e \in Errors : AttemptFail(t, e)
    \/ \E t \in Threads : Sleep(t)
    \/ \E t \in Threads : Reconnect(t)
    \/ \E s \in SUBSET (1..MaxUris) : Settle(s)

Spec == Init /\ [][Next]_vars

\* the caller's thread keeps running: search_s and time.sleep come back
Step(t) ==
    \/ \E r \in RecordSets : AttemptOk(t, r)
    \/ \E e \in Errors : AttemptFail(t, e)
    \/ Sleep(t)
    \/ Reconnect(t)

LiveSpec == Spec /\ \A t \in Threads : WF_vars(Step(t))

\* ---------------------------------------------------------------- build_filter called directly
DefaultMaxwait == 120

Supply(kw) ==
    /\ criteria' = kw
    /\ built' = NotBuilt
    /\ UNCHANGED <<conn_vars, env_vars, call_vars, gw_vars>>

BuildFilter ==
    /\ built = NotBuilt
    /\ built' = build_filter(criteria)
    /\ UNCHANGED <<conn_vars, env_vars, call_vars, criteria, gw_vars>>

InitF ==
    /\ Constructed(1, DefaultMaxwait)
    /\ callers = {1}
    /\ downs = 0
    /\ settled = FALSE
    /\ up = {}
    /\ NoCalls
    /\ criteria \in Criteria
    /\ built = NotBuilt

NextF ==
    \/ \E kw \in Criteria : Supply(kw)
    \/ BuildFilter

FilterSpec == InitF /\ [][NextF]_vars

\* ---------------------------------------------------------------- the client with any base and scope
\* search() and build_filter() called on one LDAPDirectory, one call at a time
InitC ==
    /\ \E n \in 1..MaxUris, b \in Bases, sc \in Scopes :
            ConstructedWith(n, DefaultMaxwait, b, sc)
    /\ callers = {1}
    /\ downs = 0
    /\ settled = FALSE
    /\ up = {}
    /\ NoCalls
    /\ criteria = <<>>
    /\ built = NotBuilt

NextC ==
    \/ \E t \in Threads, kw \in SearchInputs : Call(t, kw)
    \/ \E t \in Threads, r \in RecordSets : AttemptOk(t, r)
    \/ \E t \in Threads, e \in Errors : AttemptFail(t, e)
    \/ \E t \in Threads : Sleep(t)
    \/ \E t \in Threads : Reconnect(t)
    \/ \E kw \in SearchInputs : Supply(kw)
    \/ BuildFilter

ClientSpec == InitC /\ [][NextC]_vars

\* ---------------------------------------------------------------- two threads on one LDAPDirectory
InitConc ==
    /\ \E n \in 1..MaxUris : Constructed(n, DefaultMaxwait)
    /\ callers = Threads
    /\ downs = 0
    /\ settled = FALSE
    /\ up = {}
    /\ NoCalls
    /\ criteria = <<>>
    /\ built = NotBuilt

NextConc ==
    \/ \E t \in Threads : CallOnce(t, <<>>)
    \/ \E t \in Threads : AttemptOk(t, {"r1"})
    \/ \E t \in Threads : AttemptFail(t, "SERVER_DOWN")
    \/ \E t \in Threads : Sleep(t)
    \/ \E t \in Threads : ConnectNext(t)
    \/ \E t \in Threads : ConnectBind(t)

ConcSpec == InitConc /\ [][NextConc]_vars

\* ---------------------------------------------------------------- the gateway
InitG ==
    /\ \E n \in 1..MaxUris : Constructed(n, DefaultMaxwait)
    /\ callers = {1}
    /\ downs = 0
    /\ settled = FALSE
    /\ up = {}
    /\ NoCalls
    /\ criteria = <<>>
    /\ built = NotBuilt

NextG ==
    \/ \E t \in Threads, q \in Queries : ldapsearch(t, q)
    \/ \E t \in Threads, r \in RecordSets : AttemptOk(t, r)
    \/ \E t \in Threads, e \in Errors : AttemptFail(t, e)
    \/ \E t \in Threads : Sleep(t)
    \/ \E t \in Threads : Reconnect(t)
    \/ \E t \in Threads : Respond(t)

GatewaySpec == InitG /\ [][NextG]_vars

\* ---------------------------------------------------------------- properties
TypeOK ==
    /\ cursor \in 0..(Len(uris) - 1)
    /\ connects \in Nat
    /\ \A t \in Threads : pc[t] \in {"idle", "attempt", "sleep", "connect", "bind", "done"}

Returned(t) == pc[t] = "done" /\ lastout[t] = "ok"

\* C1: a search() call that saw SERVER_DOWN on its first k attempts and
\* success on attempt k+1 returns the records of that attempt, has slept k
\* times and has called connect() k times; for k = 2 and maxwait >= 2 the
\* slept intervals are [1, 2].
C1_RetryThenReturn ==
    \A t \in Threads : Returned(t) =>
        /\ res[t] = served[t]
        /\ exc[t] = None
        /\ tries[t] = nfail[t] + 1
        /\ Len(sleeps[t]) = nfail[t]
        /\ nconn[t] = nfail[t]
        /\ (nfail[t] = 2 /\ maxwait >= 2 => sleeps[t] = <<1, 2>>)

C1_Witness ==
    \E t \in Threads :
        Returned(t) /\ nfail[t] = 2 /\ maxwait >= 2 /\ res[t] = Bound({"r1", "r2"})

\* C2: the interval chosen after the j-th SERVER_DOWN of a call is
\* max(1, min(maxwait, 2*(j-1))); for maxwait = 5 the intervals are
\* 1, 2, 4, 5, 5, 5, ...
C2_Expected(j) ==
    LET capped == IF maxwait <= 2 * (j - 1) THEN maxwait ELSE 2 * (j - 1)
    IN IF capped >= 1 THEN capped ELSE 1

C2_IntervalFormula ==
    \A t \in Threads :
        /\ pc[t] = "sleep" => interval[t] = C2_Expected(nfail[t])
        /\ \A j \in 1..Len(sleeps[t]) :
            /\ sleeps[t][j] = C2_Expected(j)
            /\ maxwait = 5 =>
                sleeps[t][j] = (IF j = 1 THEN 1 ELSE IF j = 2 THEN 2 ELSE IF j = 3 THEN 4 ELSE 5)

C2_Witness ==
    \E t \in Threads : maxwait = 5 /\ sleeps[t] = <<1, 2, 4, 5, 5, 5>>

C4_Rotation ==
    /\ connects >= 1
    /\ uris = Endpoints(Len(uris))
    /\ dir.uri = uris[((connects - 1) % Len(uris)) + 1]
    /\ Len(uris) = 1 => dir.uri = 1
    /\ Len(uris) = 2 => dir.uri = (IF connects % 2 = 1 THEN 1 ELSE 2)

C4_Witness ==
    Len(uris) = 2 /\ connects = 3 /\ dir.uri = 1

\* C5: when an attempt fails with an error other than SERVER_DOWN, search()
\* raises it at once: no sleep, no connect() and no attempt follows.
C5_OtherErrorPropagates ==
    \A t \in Threads : lastout[t] \in Errors \ {"SERVER_DOWN"} =>
        /\ pc[t] = "done"
        /\ exc[t] = lastout[t]
        /\ tries[t] = nfail[t] + 1
        /\ Len(sleeps[t]) = nfail[t]
        /\ nconn[t] = nfail[t]

C5_Witness ==
    \E t \in Threads : lastout[t] = "PROTOCOL_ERROR" /\ nfail[t] = 2 /\ pc[t] = "done"

\* C6: search() never ends with SERVER_DOWN: it ends by returning a
\* successful attempt's records or by raising another error, and after a
\* SERVER_DOWN it is still running.
C6_NeverGivesUp ==
    \A t \in Threads :
        /\ pc[t] = "done" =>
            \/ lastout[t] = "ok" /\ exc[t] = None /\ res[t] \in {Bound(r) : r \in RecordSets}
            \/ exc[t] \notin {None, "SERVER_DOWN"} /\ res[t] = Unbound
        /\ lastout[t] = "SERVER_DOWN" => InCall(t)

C6_Witness ==
    \E t \in Threads : nfail[t] >= 6 /\ pc[t] = "attempt" /\ lastout[t] = "SERVER_DOWN"

\* C7: once the servers have settled with at least one endpoint answering
\* (and no other error), every search() call in progress returns.
C7_EventuallyReturns ==
    \A t \in Threads : (settled /\ InCall(t)) ~> Returned(t)

C7_Witness ==
    \E t \in Threads :
        /\ settled /\ Returned(t)
        /\ Cardinality(up) = 1 /\ Len(uris) = 3
        /\ nfail[t] >= 2

\* C8 (as claimed): until the cap is reached, each interval of a call is
\* double the one before it.
C8_Doubling ==
    \A t \in Threads : \A j \in 2..Len(sleeps[t]) :
        sleeps[t][j] < maxwait => sleeps[t][j] = 2 * sleeps[t][j - 1]

\* the orders in which the pairs of a mapping can be supplied
PermsOf(s) ==
    LET idx == 1..Len(s)
        bij == {f \in [idx -> idx] : \A i, j \in idx : i # j => f[i] # f[j]}
    IN {[i \in idx |-> s[f[i]]] : f \in bij}

\* C9: for a non-empty mapping build_filter returns the same string
\* whatever the order in which the pairs were supplied.
C9_OrderInvariant ==
    (built # NotBuilt /\ criteria # <<>>) =>
        \A p \in PermsOf(criteria) : build_filter(p) = built

C9_Witness ==
    /\ built # NotBuilt
    /\ Len(criteria) = 3
    /\ criteria[1][1] = s_objectclass /\ criteria[2][1] = s_cn /\ criteria[3][1] = s_c

Ascending(s) == \A i, j \in 1..Len(s) : i < j => StrLess(s[i][1], s[j][1])

\* "(&(cn=alice)(mail=a@example.com))"
s_example ==
    <<40, 38, 40, 99, 110, 61, 97, 108, 105, 99, 101, 41,
      40, 109, 97, 105, 108, 61, 97, 64, 101, 120, 97, 109, 112, 108, 101,
      46, 99, 111, 109, 41, 41>>

\* C10: one entry gives "(attr=value)" with no AND wrapper; more than one
\* gives "(&" + the terms of all entries, each once, by ascending attribute
\* name + ")".
C10_FilterShape ==
    built # NotBuilt =>
        /\ Len(criteria) = 1 =>
            built = Built(<<40>> \o criteria[1][1] \o <<61>> \o criteria[1][2] \o <<41>>)
        /\ Len(criteria) > 1 =>
            LET asc == CHOOSE p \in PermsOf(criteria) : Ascending(p)
            IN built = Built(<<40, 38>>
                                \o Join([i \in 1..Len(asc) |->
                                     <<40>> \o asc[i][1] \o <<61>> \o asc[i][2] \o <<41>>])
                                \o <<41>>)
        /\ criteria \in PermsOf(<<<<s_cn, s_alice>>, <<s_mail, s_aexample>>>>) =>
            built = Built(s_example)
        /\ criteria \in PermsOf(<<<<s_c, s_star>>, <<s_cn, s_star>>>>) =>
            built = Built(<<40, 38, 40, 99, 61, 42, 41, 40, 99, 110, 61, 42, 41, 41>>)

C10_Witness ==
    /\ built = Built(s_example)
    /\ criteria = <<<<s_mail, s_aexample>>, <<s_cn, s_alice>>>>

\* "(objectclass=*)"
s_matchall == <<40, 111, 98, 106, 101, 99, 116, 99, 108, 97, 115, 115, 61, 42, 41>>

\* the search_s calls of a call, in order
IsSearch(e) == e.op = "search_s"
SearchEvents(t) == SelectSeq(events[t], IsSearch)

\* C11: build_filter on empty criteria fails (IndexError is the form the
\* InvalidCriteria condition takes) and on non-empty criteria does not;
\* search() on empty criteria never fails that way and every search_s of
\* it gets the filter "(objectclass=*)".
C11_EmptyCriteria ==
    /\ (built # NotBuilt /\ criteria = <<>>) => built = Raised("IndexError")
    /\ (built # NotBuilt /\ criteria # <<>>) => built.ok
    /\ \A t \in Threads : (pc[t] # "idle" /\ arg[t] = <<>>) =>
        /\ exc[t] # "IndexError"
        /\ filter[t] = s_matchall
        /\ \A i \in 1..Len(SearchEvents(t)) : SearchEvents(t)[i].filterstr = s_matchall

C11_Witness ==
    /\ built = Raised("IndexError")
    /\ \E t \in Threads : arg[t] = <<>> /\ Returned(t) /\ Len(SearchEvents(t)) = 3

\* C12: tries counts the attempts of the current call only: it is 0 when
\* the call starts, whatever earlier calls did, so the first SERVER_DOWN of
\* every call waits 1 second and the j-th waits what the j-th of any call waits.
C12_CounterPerCall ==
    \A t \in Threads :
        /\ tries[t] = Len(SearchEvents(t))
        /\ (pc[t] = "attempt" /\ events[t] = <<>>) => tries[t] = 0
        /\ Len(sleeps[t]) >= 1 => sleeps[t][1] = 1
        /\ pc[t] = "sleep" => interval[t] = C2_Expected(Len(sleeps[t]) + 1)
        /\ (pc[t] = "sleep" /\ nfail[t] = 1) => interval[t] = 1

C12_Witness ==
    \E t \in Threads :
        /\ downs >= nfail[t] + 3
        /\ maxwait >= 2
        /\ sleeps[t] = <<1, 2>>

\* the position of endpoint u in the rotation
IndexOf(u) == CHOOSE k \in 1..Len(uris) : uris[k] = u

\* C13: a call's steps are search_s, sleep, connect, search_s, sleep,
\* connect, ...: one sleep, then one connect(), between two attempts; the
\* attempt after a failure uses the handle made by that connect(), not the
\* failed one, bound to the next endpoint of the rotation.
C13_SleepThenConnect ==
    \A t \in Threads : \A i \in 1..Len(events[t]) :
        LET e == events[t][i]
        IN /\ i % 3 = 1 => e.op = "search_s"
           /\ i % 3 = 2 => e.op = "sleep"
           /\ i % 3 = 0 => e.op = "connect"
           /\ (e.op = "search_s" /\ i > 1) =>
                /\ e.id = events[t][i - 1].id
                /\ e.uri = events[t][i - 1].uri
                /\ e.id # events[t][i - 3].id
                /\ e.uri = uris[(IndexOf(events[t][i - 3].uri) % Len(uris)) + 1]

C13_Witness ==
    \E t \in Threads :
        /\ Len(uris) = 2
        /\ Len(events[t]) = 7
        /\ events[t][1].uri = 2 /\ events[t][4].uri = 1 /\ events[t][7].uri = 2

\* a failure seen whose connect() has not started / not finished
Waiting(t) == IF pc[t] \in {"sleep", "connect"} THEN 1 ELSE 0
Binding(t) == IF pc[t] = "bind" THEN 1 ELSE 0

\* C14: with two threads in search() every SERVER_DOWN a call sees leads
\* to a connect() of its own, also when the handle it failed on has been
\* replaced already, and every connect() advances the cursor; so one lost
\* connection seen by both calls advances the cursor twice (the witness:
\* with [E1, E2] both fail on E1, the handle is bound to E1 again, and a
\* call searches on a handle its own connect() did not make).
C14_EveryFailureReconnects ==
    /\ \A t \in Threads : nfail[t] = nconn[t] + Waiting(t) + Binding(t)
    /\ connects = 1 + nconn[1] + Binding(1) + nconn[2] + Binding(2)
    /\ cursor = connects % Len(uris)

C14_Witness ==
    \E t, u \in Threads :
        /\ t # u
        /\ Len(uris) = 2
        /\ Len(events[t]) = 4 /\ Len(events[u]) >= 3
        /\ events[t][1].id = 1 /\ events[u][1].id = 1
        /\ events[t][1].uri = 1
        /\ nfail[t] = 1 /\ nfail[u] = 1
        /\ nconn[t] = 1 /\ nconn[u] = 1
        /\ connects = 3
        /\ dir.uri = 1
        /\ events[t][3].op = "connect" /\ events[t][4].op = "search_s"
        /\ events[t][4].id # events[t][3].id
        /\ events[t][4].id = events[u][3].id

\* C15: every search_s of a call gets the filter built once from the
\* call's criteria and the base and scope given at construction; a
\* connect() changes the handle and the cursor and nothing else of the
\* directory or of the call's filter and criteria.
C15_SameRequest ==
    [][/\ basedn' = basedn /\ scope' = scope
       /\ \A t \in Threads : \A i \in 1..Len(events'[t]) :
            events'[t][i].op = "search_s" =>
                /\ events'[t][i].filterstr = build_filter(Substituted(arg'[t])).val
                /\ events'[t][i].filterstr = filter'[t]
                /\ events'[t][i].base = basedn
                /\ events'[t][i].scope = scope
       /\ connects' # connects =>
            /\ dir' # dir
            /\ UNCHANGED <<uris, maxwait, basedn, scope, arg, filter, tries, sleeps>>]_vars

C15_Witness ==
    \E t \in Threads :
        /\ basedn # DefaultBasedn /\ scope = 2
        /\ Len(arg[t]) = 2
        /\ Len(SearchEvents(t)) = 3
        /\ Len(uris) = 3

\* C16: self.dir and the cursor change only in connect(): not in
\* build_filter, and not in a search() that returns or raises another
\* error on its first attempt.
C16_OnlyConnect ==
    [][/\ (dir' # dir \/ cursor' # cursor) =>
            \E t \in Threads : pc[t] = "connect" /\ connects' = connects + 1
       /\ built' # built => (dir' = dir /\ cursor' = cursor)
       /\ \A t \in Threads :
            (tries'[t] = 1 /\ lastout'[t] \in {"ok", "PROTOCOL_ERROR"}) =>
                /\ dir' = entry'[t].dir
                /\ cursor' = entry'[t].cursor
                /\ nconn'[t] = 0]_vars

C16_Witness ==
    /\ built # NotBuilt
    /\ connects >= 3
    /\ \E t \in Threads :
        pc[t] = "done" /\ tries[t] = 1 /\ lastout[t] = "PROTOCOL_ERROR" /\ dir = entry[t].dir

\* C17 (as claimed): in every reachable state connects = 1 + the
\* SERVER_DOWN failures seen so far, and the handle is bound to the
\* endpoint at index (failures mod n).
C17_AsClaimed ==
    /\ connects = 1 + downs
    /\ dir.uri = uris[(downs % Len(uris)) + 1]

\* C17 (amended): connects = 1 + the failures seen so far, less one while
\* a call is between a failure and the connect() that follows it; the
\* handle is bound to the endpoint at index ((connects - 1) mod n).
C17_ConnectsPerFailure ==
    LET pending == Waiting(1) + Waiting(2)
    IN /\ connects = 1 + downs - pending
       /\ dir.uri = uris[((downs - pending) % Len(uris)) + 1]
       /\ pending = 0 => C17_AsClaimed

C17_Witness ==
    /\ Len(uris) = 2
    /\ downs = 3 /\ connects = 4 /\ dir.uri = 2
    /\ \E t \in Threads : pc[t] = "done" /\ nfail[t] = 1

\* C18: within a call the intervals never decrease, and after an interval
\* equal to maxwait every later one equals maxwait.
C18_Monotone ==
    \A t \in Threads : \A j \in 2..Len(sleeps[t]) :
        /\ sleeps[t][j] >= sleeps[t][j - 1]
        /\ sleeps[t][j - 1] = maxwait => sleeps[t][j] = maxwait

C18_Witness ==
    \E t \in Threads : maxwait = 4 /\ sleeps[t] = <<1, 2, 4, 4, 4>>

\* C19: ldapsearch answers 404 exactly when search() returned no records,
\* the records (JSON) when it returned some, and never 404 when search()
\* raised.
C19_NotFound ==
    \A t \in Threads : resp[t].status # 0 =>
        /\ resp[t].status = 404 <=> res[t] = Bound({})
        /\ (res[t] # Unbound /\ res[t] # Bound({})) =>
            (resp[t].status = 200 /\ Bound(resp[t].json) = res[t])
        /\ exc[t] # None => (res[t] = Unbound /\ resp[t].status = 500)

C19_Witness ==
    \E t \in Threads :
        /\ resp[t].status = 404
        /\ nfail[t] >= 1
        /\ Len(arg[t]) = 1
====
